---- MODULE Spec2Model ----
(***************************************************************************)
(* FrameScript backend: the frame cache and decode scheduler of            *)
(* backend/src/decoder.rs (Decoder registry, CachedDecoder, the stream     *)
(* worker run_stream_loop, the eviction GC task and the fallback path).    *)
(*                                                                         *)
(* Tasks run on a multi-threaded runtime, so every lock acquisition and    *)
(* every atomic operation of the source is a step that other tasks may     *)
(* interleave with.  A cell (SharedManualFuture) that is still referenced  *)
(* by a task after it left the frames map is tracked by the reference the  *)
(* task holds ("map", "live", "dead", "val").                              *)
(***************************************************************************)
EXTENDS Integers, Sequences, FiniteSets, TLC

(* ------------------------------ bounds -------------------------------- *)

\* number of client tasks that call cached_decoder / get_frame
NumCallers == 2
\* frame indices 0..MaxFrame are requested
MaxFrame == 2
\* frame indices requested in the registry specifications
MaxFrameReg == 0
\* decoder instances created per key
MaxGen == 2
\* worker tasks that left run_stream_loop and have not yet decremented
\* running_decode_tasks
MaxTails == 1
\* configured byte budget (set_max_cache_size), in units of FrameUnit bytes
max_cache_bytes == 4
\* the usize counter wraps modulo this (in units of FrameUnit bytes)
UsizeModulus == 64
\* the largest frame index (u32::MAX, scaled down)
U32Max == 127

(* ------------------------- program constants -------------------------- *)

RECENT_FRAME_CACHE == 6
STREAM_RESTART_GAP == 90

(* ------------------------------ values -------------------------------- *)

\* a frames-map slot: no entry, an entry whose cell is not completed, or the
\* bytes of a completed cell
Absent == 0
PendingCell == 1
\* the bytes generate_empty_frame produces (all pixels 255,0,0,255)
RedFrame == 2
\* the bytes the decoder yields for frame index i (stream or single-shot)
FrameBytes(i) == 3 + i
IsCompleted(v) == v >= RedFrame

NoFrame == 0 - 1
NoDecoder == 0

Callers == 1..NumCallers
Frames == 0..MaxFrame
RegFrames == 0..MaxFrameReg
\* DecoderKey: key k has session_id k and a resolution of k * k frame units
Keys == {1, 2}
session_id(k) == k
\* width * height * 4 of key k, in frame units
FrameLen(k) == k * k
Insts == 1..(2 * MaxGen)
KeyOf(d) == ((d - 1) \div MaxGen) + 1
GenOf(d) == ((d - 1) % MaxGen) + 1
InstOf(k, g) == (k - 1) * MaxGen + g

VARIABLES
    map,                  \* Decoder.map: key -> registered instance or NoDecoder
    created,              \* key -> number of CachedDecoder::new calls so far
    frames,               \* Inner.frames: instance -> frame index -> slot
    pending_frames,       \* Inner.pending_frames
    pinned_frame,         \* Inner.pinned_frame (NoFrame for None)
    recent_frames,        \* Inner.recent_frames
    stream_running,       \* Inner.stream_running
    closed,               \* Inner.closed
    running_decode_tasks, \* Inner.running_decode_tasks
    entire_cache_size,    \* ENTIRE_CACHE_SIZE
    call,                 \* caller -> position and locals of its get_frame call
    worker,               \* instance -> position and locals of run_stream_loop
    tails,                \* instance -> tasks between loop exit and fetch_sub
    gc,                   \* instance -> position and snapshots of the GC task
    admin,                \* position and locals of a clear / clear_session call
    hist                  \* observations of returned calls (history only)

vars == <<map, created, frames, pending_frames, pinned_frame, recent_frames,
          stream_running, closed, running_decode_tasks, entire_cache_size,
          call, worker, tails, gc, admin, hist>>

decoderVars == <<frames, pending_frames, pinned_frame, recent_frames,
                 stream_running, closed, running_decode_tasks>>

(* ------------------------------ helpers ------------------------------- *)

Min(S) == CHOOSE x \in S : \A y \in S : x <= y
Range(s) == {s[n] : n \in 1..Len(s)}

\* u32::saturating_add(1) on a frame index
SaturatingInc(x) == IF x >= U32Max THEN U32Max ELSE x + 1

\* usize arithmetic of the AtomicUsize counter
FetchAdd(x, n) == (x + n) % UsizeModulus
FetchSub(x, n) == (x - n + UsizeModulus) % UsizeModulus

\* locks: the locks of the decoder the task holds between two steps, in the
\* order of their acquisition; pinned and drop: the locals of finish_frame
IdleCall == [pc |-> "idle", h |-> NoDecoder, idx |-> 0, ref |-> "none",
             val |-> Absent, fbi |-> 0, locks |-> <<>>, pinned |-> NoFrame,
             drop |-> NoFrame]
IdleWorker == [pc |-> "none", stream |-> "none", current |-> 0, target |-> 0,
               ref |-> "none", idx |-> 0, todo |-> {}]
IdleGc == [pc |-> "off", pending |-> {}, pinned |-> NoFrame, recent |-> {}]
IdleAdmin == [pc |-> "idle", taken |-> {}, session |-> 0]
\* observations: the call that returned in the last step (quiet: its task,
\* 0 when the last step was no return), per task the bytes an immediately
\* preceding call for the same frame returned (follow) and the bytes
\* overlapping calls for the same frame returned (peers)
NoHist == [quiet |-> 0, lastd |-> NoDecoder, last |-> NoFrame, lastv |-> Absent,
           follow |-> [c \in 1..NumCallers |-> Absent],
           peers |-> [c \in 1..NumCallers |-> {}]]

\* the state after construction, with frames maps that range over the frame
\* indices F
InitOver(F) ==
    /\ map = [k \in Keys |-> NoDecoder]
    /\ created = [k \in Keys |-> 0]
    /\ frames = [d \in Insts |-> [i \in F |-> Absent]]
    /\ pending_frames = [d \in Insts |-> {}]
    /\ pinned_frame = [d \in Insts |-> NoFrame]
    /\ recent_frames = [d \in Insts |-> <<>>]
    /\ stream_running = [d \in Insts |-> FALSE]
    /\ closed = [d \in Insts |-> FALSE]
    /\ running_decode_tasks = [d \in Insts |-> 0]
    /\ entire_cache_size = 0
    /\ call = [c \in Callers |-> IdleCall]
    /\ worker = [d \in Insts |-> IdleWorker]
    /\ tails = [d \in Insts |-> 0]
    /\ gc = [d \in Insts |-> IdleGc]
    /\ admin = IdleAdmin
    /\ hist = NoHist

Init == InitOver(Frames)

(* ------------------- cells that left the frames map -------------------- *)

\* The value of the cell a get_frame call cloned: the slot of the map while the
\* cell is still the one stored there, the bytes it was completed with, or
\* not completed (a cell nobody but the worker, or nobody at all, still holds).
CellValue(c) ==
    IF call[c].ref = "map" THEN frames[call[c].h][call[c].idx]
    ELSE IF call[c].ref = "val" THEN call[c].val
    ELSE PendingCell

\* The worker of d holds a clone of the cell stored under i.
WorkerHolds(d, i) == worker[d].ref = "map" /\ worker[d].idx = i

\* The reference of a call after the entries `gone` left the map of d; old is
\* the map before the removal.
DetachCall(cl, d, gone, old) ==
    IF cl.h = d /\ cl.ref = "map" /\ cl.idx \in gone
    THEN IF IsCompleted(old[cl.idx])
         THEN [cl EXCEPT !.ref = "val", !.val = old[cl.idx]]
         ELSE [cl EXCEPT !.ref = IF WorkerHolds(d, cl.idx) THEN "live" ELSE "dead"]
    ELSE cl

DetachWorker(w, gone, old) ==
    IF w.ref = "map" /\ w.idx \in gone
    THEN [w EXCEPT !.ref = IF IsCompleted(old[w.idx]) THEN "done" ELSE "orph"]
    ELSE w

(* ------------------------- Decoder (registry) -------------------------- *)

\* a cached_decoder that inserts a new decoder whether or not the key is
\* registered
CachedDecoderInsert(c, k) ==
    /\ call[c].pc = "idle"
    /\ created[k] < MaxGen
    /\ map' = [map EXCEPT ![k] = InstOf(k, created[k] + 1)]
    /\ created' = [created EXCEPT ![k] = created[k] + 1]
    /\ call' = [call EXCEPT ![c].h = InstOf(k, created[k] + 1),
                            ![c].pc = "sched"]
    /\ UNCHANGED <<decoderVars, entire_cache_size, worker, tails, gc, admin>>

\* Decoder::cached_decoder, the locked entry().or_insert_with().clone()
CachedDecoder(c, k) ==
    /\ call[c].pc = "idle"
    /\ IF map[k] # NoDecoder
       THEN /\ call' = [call EXCEPT ![c].h = map[k]]
            /\ UNCHANGED <<map, created>>
       ELSE /\ created[k] < MaxGen
            /\ map' = [map EXCEPT ![k] = InstOf(k, created[k] + 1)]
            /\ created' = [created EXCEPT ![k] = created[k] + 1]
            /\ call' = [call EXCEPT ![c].h = InstOf(k, created[k] + 1),
                                    ![c].pc = "sched"]
    /\ UNCHANGED <<decoderVars, entire_cache_size, worker, tails, gc, admin>>

\* CachedDecoder::schedule_gc: the creator spawns the GC task and returns
ScheduleGc(c) ==
    /\ call[c].pc = "sched"
    /\ gc' = [gc EXCEPT ![call[c].h].pc = "sleep"]
    /\ call' = [call EXCEPT ![c].pc = "idle"]
    /\ UNCHANGED <<map, created, decoderVars, entire_cache_size, worker, tails,
                   admin>>

(* ------------------------ CachedDecoder::get_frame --------------------- *)

\* frames.write().entry(frame_index).or_insert_with(new).clone()
GetFrameEntry(c, i) ==
    LET d == call[c].h IN
    /\ call[c].pc = "idle"
    /\ d # NoDecoder
    /\ frames' = [frames EXCEPT ![d][i] =
                     IF @ = Absent THEN PendingCell ELSE @]
    /\ call' = [call EXCEPT ![c].pc = "peek", ![c].idx = i, ![c].ref = "map"]
    /\ UNCHANGED <<map, created, pending_frames, pinned_frame, recent_frames,
                   stream_running, closed, running_decode_tasks,
                   entire_cache_size, worker, tails, gc, admin>>

\* a get_frame whose miss sets the pin whether or not one is set
GetFramePeekRepin(c) ==
    LET d == call[c].h
        hit == IsCompleted(CellValue(c)) IN
    /\ call[c].pc = "peek"
    /\ call' = [call EXCEPT
                  ![c].pc = IF hit THEN "finish" ELSE "mark",
                  ![c].val = IF hit THEN CellValue(c) ELSE Absent]
    /\ pinned_frame' = [pinned_frame EXCEPT ![d] =
                           IF ~hit THEN call[c].idx ELSE @]
    /\ UNCHANGED <<map, created, frames, pending_frames, recent_frames,
                   stream_running, closed, running_decode_tasks,
                   entire_cache_size, worker, tails, gc, admin>>

\* if let Some(frame) = future.get_now() { return finish_frame(..) }, and on
\* a miss: if pinned.is_none() { *pinned = Some(frame_index) }.  The write of the
\* pin is one step with the peek: until the first miss has pinned, no cell of
\* the decoder is completed and no task reads the pin but the GC snapshot.
GetFramePeek(c) ==
    LET d == call[c].h
        hit == IsCompleted(CellValue(c)) IN
    /\ call[c].pc = "peek"
    /\ call' = [call EXCEPT
                  ![c].pc = IF hit THEN "finish" ELSE "mark",
                  ![c].val = IF hit THEN CellValue(c) ELSE Absent]
    /\ pinned_frame' = [pinned_frame EXCEPT ![d] =
                           IF ~hit /\ @ = NoFrame THEN call[c].idx ELSE @]
    /\ UNCHANGED <<map, created, frames, pending_frames, recent_frames,
                   stream_running, closed, running_decode_tasks,
                   entire_cache_size, worker, tails, gc, admin>>

\* pending.insert(frame_index)
GetFrameMarkPending(c) ==
    LET d == call[c].h IN
    /\ call[c].pc = "mark"
    /\ pending_frames' = [pending_frames EXCEPT ![d] = @ \cup {call[c].idx}]
    /\ call' = [call EXCEPT ![c].pc = "ensure"]
    /\ UNCHANGED <<map, created, frames, pinned_frame, recent_frames,
                   stream_running, closed, running_decode_tasks,
                   entire_cache_size, worker, tails, gc, admin>>

\* an ensure_stream_task that spawns a worker without testing stream_running
EnsureStreamTaskAlways(c) ==
    LET d == call[c].h IN
    /\ call[c].pc = "ensure"
    /\ stream_running' = [stream_running EXCEPT ![d] = TRUE]
    /\ running_decode_tasks' = [running_decode_tasks EXCEPT ![d] = @ + 1]
    /\ worker' = [worker EXCEPT ![d] = [IdleWorker EXCEPT !.pc = "top"]]
    /\ call' = [call EXCEPT ![c].pc = "await"]
    /\ UNCHANGED <<map, created, frames, pending_frames, pinned_frame,
                   recent_frames, closed, entire_cache_size, tails, gc, admin>>

\* CachedDecoder::ensure_stream_task, then stream_notify.notify_one().  The
\* spawned task is the worker of d from the spawn on.
EnsureStreamTask(c) ==
    LET d == call[c].h IN
    /\ call[c].pc = "ensure"
    /\ IF stream_running[d]
       THEN UNCHANGED <<stream_running, running_decode_tasks, worker>>
       ELSE /\ stream_running' = [stream_running EXCEPT ![d] = TRUE]
            /\ running_decode_tasks' =
                   [running_decode_tasks EXCEPT ![d] = @ + 1]
            /\ worker' = [worker EXCEPT ![d] = [IdleWorker EXCEPT !.pc = "top"]]
    /\ call' = [call EXCEPT ![c].pc = "await"]
    /\ UNCHANGED <<map, created, frames, pending_frames, pinned_frame,
                   recent_frames, closed, entire_cache_size, tails, gc, admin>>

\* timeout(1 s, future.get()) returns Ok(result)
AwaitReady(c) ==
    /\ call[c].pc = "await"
    /\ IsCompleted(CellValue(c))
    /\ call' = [call EXCEPT ![c].pc = "finish", ![c].val = CellValue(c)]
    /\ UNCHANGED <<map, created, decoderVars, entire_cache_size, worker, tails,
                   gc, admin>>

\* the timeout elapses with running_decode_tasks == 0: pending.remove
AwaitTimeout(c) ==
    LET d == call[c].h IN
    /\ call[c].pc = "await"
    /\ ~IsCompleted(CellValue(c))
    /\ running_decode_tasks[d] = 0
    /\ pending_frames' = [pending_frames EXCEPT ![d] = @ \ {call[c].idx}]
    /\ call' = [call EXCEPT ![c].pc = "walk", ![c].fbi = call[c].idx]
    /\ UNCHANGED <<map, created, frames, pinned_frame, recent_frames,
                   stream_running, closed, running_decode_tasks,
                   entire_cache_size, worker, tails, gc, admin>>

\* one iteration of the backward walk: fallback_index.checked_sub(1)
FallbackWalk(c) ==
    LET d == call[c].h
        j == call[c].fbi - 1 IN
    /\ call[c].pc = "walk"
    /\ call' = [call EXCEPT ![c] =
          IF call[c].fbi = 0
          THEN [@ EXCEPT !.pc = "finish", !.val = RedFrame, !.fbi = 0]
          ELSE IF IsCompleted(frames[d][j])
               THEN [@ EXCEPT !.pc = "finish", !.val = frames[d][j], !.fbi = 0]
               ELSE [@ EXCEPT !.fbi = j]]
    /\ UNCHANGED <<map, created, decoderVars, entire_cache_size, worker, tails,
                   gc, admin>>

(* --------------------------- buffer lengths ---------------------------- *)

\* DecoderKey.width and DecoderKey.height of key k; FrameLen(k) counts the
\* width * height * 4 bytes of a frame in units of one pixel (4 bytes)
Width(k) == k
Height(k) == k

\* a generate_empty_frame that allocates three bytes per pixel
EmptyFrameLenRgb(width, height) == width * height * 3

\* generate_empty_frame: vec![0u8; (width * height * 4) as usize]
EmptyFrameLen(width, height) == width * height * 4

\* FrameStream::spawn: frame_size, the length of every buffer read_next yields
frame_size(dst_width, dst_height) == dst_width * dst_height * 4

\* the length of the buffer hw_decoder::extract_frame_hw_rgba returns: the
\* collaborator's single-shot decode yields width * height * 4 RGBA bytes
SingleShotLen(width, height) == width * height * 4

\* the lengths a buffer of decoder d with the bytes v can have: v is the red
\* frame, or a frame read from the stream or decoded single-shot
BufferLens(d, v) ==
    LET k == KeyOf(d) IN
    IF v = RedFrame THEN {EmptyFrameLen(Width(k), Height(k))}
    ELSE IF v > RedFrame THEN {frame_size(Width(k), Height(k)),
                               SingleShotLen(Width(k), Height(k))}
    ELSE {}

(* ---------------------- CachedDecoder::finish_frame -------------------- *)

\* width * height * 4 of the frames of instance d
LenOf(d) == FrameLen(KeyOf(d))

\* an overflow loop that pops recent_frames and leaves the frames map alone
RECURSIVE DrainRecentKeep(_, _, _)
DrainRecentKeep(st, pin, len) ==
    IF Len(st.recent) <= RECENT_FRAME_CACHE THEN st
    ELSE DrainRecentKeep([st EXCEPT !.recent = Tail(st.recent)], pin, len)

\* while recent.len() > RECENT_FRAME_CACHE { pop_front; remove; fetch_sub }
\* st = [recent, frames (the map of one decoder), size, gone]
RECURSIVE DrainRecent(_, _, _)
DrainRecent(st, pin, len) ==
    IF Len(st.recent) <= RECENT_FRAME_CACHE THEN st
    ELSE LET x == Head(st.recent)
             rest == Tail(st.recent) IN
         IF x = pin THEN DrainRecent([st EXCEPT !.recent = rest], pin, len)
         ELSE DrainRecent(
                [recent |-> rest,
                 frames |-> [st.frames EXCEPT ![x] = Absent],
                 size |-> IF IsCompleted(st.frames[x])
                          THEN FetchSub(st.size, len) ELSE st.size,
                 gone |-> IF st.frames[x] # Absent
                          THEN st.gone \cup {x} ELSE st.gone],
                pin, len)

\* if recent.back() != Some(frame_index) { recent.push_back(frame_index) }
PushRecent(recent, i) ==
    IF Len(recent) > 0 /\ recent[Len(recent)] = i THEN recent
    ELSE Append(recent, i)

\* the state finish_frame(frame_index = i) leaves, for a decoder whose pin is pin
FinishState(d, i) ==
    LET st0 == [recent |-> recent_frames[d], frames |-> frames[d],
                size |-> entire_cache_size, gone |-> {}] IN
    IF i = pinned_frame[d] THEN st0
    ELSE DrainRecent([st0 EXCEPT !.recent = PushRecent(recent_frames[d], i)],
                     pinned_frame[d], LenOf(d))

(* finish_frame, one step per lock acquisition *)

\* no task holds the frames lock of d
FramesFree(d) ==
    \A c \in Callers : call[c].h = d => "frames" \notin Range(call[c].locks)

\* no task holds the recent_frames mutex of d
RecentFree(d) ==
    \A c \in Callers : call[c].h = d => "recent_frames" \notin Range(call[c].locks)

\* let pinned = *self.inner.pinned_frame.lock().unwrap(): the guard is a
\* temporary, dropped at the end of the statement
FinishReadPinned(c) ==
    LET d == call[c].h IN
    /\ call[c].pc = "finish"
    /\ call' = [call EXCEPT ![c].pc = "fin_pinned",
                            ![c].pinned = pinned_frame[d]]
    /\ UNCHANGED <<map, created, decoderVars, entire_cache_size, worker, tails,
                   gc, admin>>

\* if Some(frame_index) != pinned { let mut recent = recent_frames.lock();
\* push_back unless it is the back }, or the return of get_frame
FinishLockRecent(c) ==
    LET d == call[c].h IN
    /\ call[c].pc = "fin_pinned"
    /\ IF call[c].idx = call[c].pinned
       THEN /\ call' = [call EXCEPT ![c] = [IdleCall EXCEPT !.h = d]]
            /\ UNCHANGED recent_frames
       ELSE /\ RecentFree(d)
            /\ recent_frames' = [recent_frames EXCEPT ![d] =
                                    PushRecent(@, call[c].idx)]
            /\ call' = [call EXCEPT ![c].pc = "fin_loop",
                                    ![c].locks = Append(@, "recent_frames")]
    /\ UNCHANGED <<map, created, frames, pending_frames, pinned_frame,
                   stream_running, closed, running_decode_tasks,
                   entire_cache_size, worker, tails, gc, admin>>

\* while recent.len() > RECENT_FRAME_CACHE { pop_front; if drop_index == pinned
\* { continue }; self.inner.frames.write() .. }, with the recent guard still
\* held; after the loop the guard is dropped and get_frame returns
FinishPop(c) ==
    LET d == call[c].h
        x == Head(recent_frames[d]) IN
    /\ call[c].pc = "fin_loop"
    /\ IF Len(recent_frames[d]) <= RECENT_FRAME_CACHE
       THEN /\ call' = [call EXCEPT ![c] = [IdleCall EXCEPT !.h = d]]
            /\ UNCHANGED recent_frames
       ELSE /\ recent_frames' = [recent_frames EXCEPT ![d] = Tail(@)]
            /\ IF x = call[c].pinned
               THEN UNCHANGED call
               ELSE /\ FramesFree(d)
                    /\ call' = [call EXCEPT ![c].pc = "fin_write",
                                            ![c].drop = x,
                                            ![c].locks = Append(@, "frames")]
    /\ UNCHANGED <<map, created, frames, pending_frames, pinned_frame,
                   stream_running, closed, running_decode_tasks,
                   entire_cache_size, worker, tails, gc, admin>>

\* .remove(&drop_index), the frames guard is dropped at the end of the
\* statement; fetch_sub(cached.len()) if the removed cell is completed
FinishRemove(c) ==
    LET d == call[c].h
        x == call[c].drop
        gone == IF frames[d][x] # Absent THEN {x} ELSE {} IN
    /\ call[c].pc = "fin_write"
    /\ frames' = [frames EXCEPT ![d][x] = Absent]
    /\ entire_cache_size' = IF IsCompleted(frames[d][x])
                            THEN FetchSub(entire_cache_size, LenOf(d))
                            ELSE entire_cache_size
    /\ call' = [c2 \in Callers |->
                  IF c2 = c
                  THEN [call[c] EXCEPT !.pc = "fin_loop", !.drop = NoFrame,
                                       !.locks = SubSeq(@, 1, Len(@) - 1)]
                  ELSE DetachCall(call[c2], d, gone, frames[d])]
    /\ worker' = [worker EXCEPT ![d] = DetachWorker(@, gone, frames[d])]
    /\ UNCHANGED <<map, created, pending_frames, pinned_frame, recent_frames,
                   stream_running, closed, running_decode_tasks, tails, gc,
                   admin>>

\* CachedDecoder::finish_frame and the return of get_frame
FinishFrame(c) ==
    LET d == call[c].h
        st == FinishState(d, call[c].idx) IN
    /\ call[c].pc = "finish"
    /\ recent_frames' = [recent_frames EXCEPT ![d] = st.recent]
    /\ frames' = [frames EXCEPT ![d] = st.frames]
    /\ entire_cache_size' = st.size
    /\ call' = [c2 \in Callers |->
                  IF c2 = c THEN [IdleCall EXCEPT !.h = d]
                  ELSE DetachCall(call[c2], d, st.gone, frames[d])]
    /\ worker' = [worker EXCEPT ![d] = DetachWorker(@, st.gone, frames[d])]
    /\ UNCHANGED <<map, created, pending_frames, pinned_frame, stream_running,
                   closed, running_decode_tasks, tails, gc, admin>>

(* --------------------------- run_stream_loop ---------------------------- *)

\* a worker that restarts only on a forward gap
RestartOnGapOnly(w, target_frame) ==
    \/ w.stream = "none"
    \/ target_frame - w.current > STREAM_RESTART_GAP

\* a worker that respawns its stream for every target
RestartAlways(w, target_frame) == TRUE

\* a worker that restarts already on a forward gap of STREAM_RESTART_GAP
RestartOnGapAtLeast(w, target_frame) ==
    \/ w.stream = "none"
    \/ target_frame < w.current
    \/ target_frame - w.current >= STREAM_RESTART_GAP

\* let restart = match stream.as_ref() { None => true, Some(_) => .. }
NeedsRestart(w, target_frame) ==
    \/ w.stream = "none"
    \/ target_frame < w.current
    \/ target_frame - w.current > STREAM_RESTART_GAP

\* a worker that does not look at closed
StreamLoopTopDeaf(d) ==
    LET w == worker[d]
        target_frame == Min(pending_frames[d])
        restart == NeedsRestart(w, target_frame) IN
    /\ w.pc = "top"
    /\ pending_frames[d] # {}
    /\ worker' = [worker EXCEPT ![d] =
          IF restart
          THEN [@ EXCEPT !.pc = "spawn_hw", !.stream = "none",
                         !.current = 0, !.target = target_frame]
          ELSE [@ EXCEPT !.pc = "check", !.target = target_frame]]
    /\ UNCHANGED <<map, created, frames, pending_frames, pinned_frame,
                   recent_frames, closed, running_decode_tasks,
                   entire_cache_size, call, gc, admin, stream_running, tails>>

\* The worker leaves the loop or picks its target and decides on a restart.
\* With no pending frame it waits on stream_notify (at most
\* STREAM_IDLE_TIMEOUT) and looks again: no change of state.
StreamLoopTop(d) ==
    LET w == worker[d]
        target_frame == Min(pending_frames[d])
        restart == NeedsRestart(w, target_frame) IN
    /\ w.pc = "top"
    /\ IF closed[d]
       THEN \* break; shutdown; stream_running.store(false)
            /\ tails[d] < MaxTails
            /\ worker' = [worker EXCEPT ![d] = IdleWorker]
            /\ stream_running' = [stream_running EXCEPT ![d] = FALSE]
            /\ tails' = [tails EXCEPT ![d] = @ + 1]
       ELSE /\ pending_frames[d] # {}
            /\ worker' = [worker EXCEPT ![d] =
                  IF restart
                  THEN [@ EXCEPT !.pc = "spawn_hw", !.stream = "none",
                                 !.current = 0, !.target = target_frame]
                  ELSE [@ EXCEPT !.pc = "check", !.target = target_frame]]
            /\ UNCHANGED <<stream_running, tails>>
    /\ UNCHANGED <<map, created, frames, pending_frames, pinned_frame,
                   recent_frames, closed, running_decode_tasks,
                   entire_cache_size, call, gc, admin>>

\* inner.running_decode_tasks.fetch_sub(1) of a task that left the loop
StreamTaskDone(d) ==
    /\ tails[d] > 0
    /\ tails' = [tails EXCEPT ![d] = @ - 1]
    /\ running_decode_tasks' = [running_decode_tasks EXCEPT ![d] = @ - 1]
    /\ UNCHANGED <<map, created, frames, pending_frames, pinned_frame,
                   recent_frames, stream_running, closed, entire_cache_size,
                   call, worker, gc, admin>>

\* the pending frames complete_pending_with_fallback starts from
FallbackStart(w, d) ==
    [w EXCEPT !.pc = "fb", !.stream = "none", !.current = 0, !.target = 0,
              !.todo = pending_frames[d]]

\* FrameStream::spawn(.., target_frame, .., use_hwaccel = true)
SpawnHw(d, ok) ==
    /\ worker[d].pc = "spawn_hw"
    /\ worker' = [worker EXCEPT ![d] =
          IF ok THEN [@ EXCEPT !.pc = "check", !.stream = "hw",
                               !.current = worker[d].target]
          ELSE [@ EXCEPT !.pc = "spawn_sw"]]
    /\ UNCHANGED <<map, created, decoderVars, entire_cache_size, call, tails,
                   gc, admin>>

\* FrameStream::spawn(.., target_frame, .., use_hwaccel = false)
SpawnSw(d, ok) ==
    /\ worker[d].pc = "spawn_sw"
    /\ worker' = [worker EXCEPT ![d] =
          IF ok THEN [@ EXCEPT !.pc = "check", !.stream = "sw",
                               !.current = worker[d].target]
          ELSE FallbackStart(@, d)]
    /\ UNCHANGED <<map, created, decoderVars, entire_cache_size, call, tails,
                   gc, admin>>

\* while current_frame <= target_frame { if min_pending < current { break } ..
StreamCheck(d) ==
    LET w == worker[d] IN
    /\ w.pc = "check"
    /\ worker' = [worker EXCEPT ![d] =
          IF \/ w.current > w.target
             \/ (pending_frames[d] # {} /\ Min(pending_frames[d]) < w.current)
          THEN [@ EXCEPT !.pc = "top", !.target = 0]
          ELSE [@ EXCEPT !.pc = "read"]]
    /\ UNCHANGED <<map, created, decoderVars, entire_cache_size, call, tails,
                   gc, admin>>

\* a worker that treats a failed read of a hardware stream like a failed read
\* of a software stream
StreamReadNoSwitch(d, ok) ==
    LET w == worker[d]
        should_complete == w.current \in pending_frames[d] IN
    /\ w.pc = "read"
    /\ IF ok
       THEN /\ pending_frames' = [pending_frames EXCEPT ![d] = @ \ {w.current}]
            /\ worker' = [worker EXCEPT ![d] =
                  IF should_complete /\ frames[d][w.current] # Absent
                  THEN [@ EXCEPT !.pc = "complete", !.ref = "map",
                                 !.idx = w.current]
                  ELSE [@ EXCEPT !.pc = "check",
                                 !.current = SaturatingInc(@)]]
       ELSE /\ worker' = [worker EXCEPT ![d] = FallbackStart(@, d)]
            /\ UNCHANGED pending_frames
    /\ UNCHANGED <<map, created, frames, pinned_frame, recent_frames,
                   stream_running, closed, running_decode_tasks,
                   entire_cache_size, call, tails, gc, admin>>

\* stream_ref.read_next(), then pending.remove(&current_frame) and
\* frames.get(&current_frame).cloned()
StreamRead(d, ok) ==
    LET w == worker[d]
        should_complete == w.current \in pending_frames[d] IN
    /\ w.pc = "read"
    /\ IF ok
       THEN /\ pending_frames' = [pending_frames EXCEPT ![d] = @ \ {w.current}]
            /\ worker' = [worker EXCEPT ![d] =
                  IF should_complete /\ frames[d][w.current] # Absent
                  THEN [@ EXCEPT !.pc = "complete", !.ref = "map",
                                 !.idx = w.current]
                  ELSE [@ EXCEPT !.pc = "check",
                                 !.current = SaturatingInc(@)]]
       ELSE /\ worker' = [worker EXCEPT ![d] =
                  IF w.stream = "hw"
                  THEN [@ EXCEPT !.pc = "respawn_sw", !.stream = "none"]
                  ELSE FallbackStart(@, d)]
            /\ UNCHANGED pending_frames
    /\ UNCHANGED <<map, created, frames, pinned_frame, recent_frames,
                   stream_running, closed, running_decode_tasks,
                   entire_cache_size, call, tails, gc, admin>>

\* the calls awaiting the cell the worker completes outside the map
WakeLive(d, v) ==
    [c \in Callers |->
       IF call[c].h = d /\ call[c].ref = "live"
       THEN [call[c] EXCEPT !.ref = "val", !.val = v]
       ELSE call[c]]

\* a completion that does not test is_completed
CompleteHeldAgain(d, v) ==
    LET w == worker[d] IN
    /\ frames' = [frames EXCEPT ![d][w.idx] = IF w.ref = "map" THEN v ELSE @]
    /\ entire_cache_size' = FetchAdd(entire_cache_size, LenOf(d))
    /\ call' = IF w.ref = "orph" THEN WakeLive(d, v) ELSE call

\* if !future.is_completed() { fetch_add(frame.len()); future.complete(frame) }
\* on the cell the worker holds, with the bytes v
CompleteHeld(d, v) ==
    LET w == worker[d]
        fresh == \/ w.ref = "orph"
                 \/ (w.ref = "map" /\ ~IsCompleted(frames[d][w.idx])) IN
    /\ frames' = [frames EXCEPT ![d][w.idx] =
                     IF w.ref = "map" /\ fresh THEN v ELSE @]
    /\ entire_cache_size' = IF fresh THEN FetchAdd(entire_cache_size, LenOf(d))
                            ELSE entire_cache_size
    /\ call' = IF w.ref = "orph" THEN WakeLive(d, v) ELSE call

\* a worker that does not advance current_frame after a completion
StreamCompleteStay(d) ==
    /\ worker[d].pc = "complete"
    /\ CompleteHeld(d, FrameBytes(worker[d].idx))
    /\ worker' = [worker EXCEPT ![d] =
          [@ EXCEPT !.pc = "check", !.ref = "none", !.idx = 0]]
    /\ UNCHANGED <<map, created, pending_frames, pinned_frame, recent_frames,
                   stream_running, closed, running_decode_tasks, tails, gc,
                   admin>>

\* the completion of the frame read from the stream;
\* current_frame = current_frame.saturating_add(1)
StreamComplete(d) ==
    /\ worker[d].pc = "complete"
    /\ CompleteHeld(d, FrameBytes(worker[d].idx))
    /\ worker' = [worker EXCEPT ![d] =
          [@ EXCEPT !.pc = "check", !.ref = "none", !.idx = 0,
                    !.current = SaturatingInc(@)]]
    /\ UNCHANGED <<map, created, pending_frames, pinned_frame, recent_frames,
                   stream_running, closed, running_decode_tasks, tails, gc,
                   admin>>

\* after a hardware read error: FrameStream::spawn(.., current_frame, .., false)
RespawnSw(d, ok) ==
    /\ worker[d].pc = "respawn_sw"
    /\ worker' = [worker EXCEPT ![d] =
          IF ok THEN [@ EXCEPT !.pc = "top", !.stream = "sw", !.target = 0]
          ELSE FallbackStart(@, d)]
    /\ UNCHANGED <<map, created, decoderVars, entire_cache_size, call, tails,
                   gc, admin>>

(* -------------------- complete_pending_with_fallback -------------------- *)

\* a fallback that leaves the indices it visits in pending_frames
FallbackNextKeep(d) ==
    LET w == worker[d]
        x == Min(w.todo) IN
    /\ w.pc = "fb"
    /\ worker' = [worker EXCEPT ![d] =
          IF w.todo = {} THEN [@ EXCEPT !.pc = "top"]
          ELSE IF x \in pending_frames[d] /\ frames[d][x] = PendingCell
               THEN [@ EXCEPT !.pc = "fb_decode", !.todo = @ \ {x},
                              !.ref = "map", !.idx = x]
               ELSE [@ EXCEPT !.todo = @ \ {x}]]
    /\ UNCHANGED <<map, created, frames, pending_frames, pinned_frame,
                   recent_frames, stream_running, closed, running_decode_tasks,
                   entire_cache_size, call, tails, gc, admin>>

\* one iteration up to the single-shot decode: pending.remove(&frame_index),
\* frames.get(&frame_index).cloned(), is_completed
FallbackNext(d) ==
    LET w == worker[d]
        x == Min(w.todo) IN
    /\ w.pc = "fb"
    /\ IF w.todo = {}
       THEN /\ worker' = [worker EXCEPT ![d].pc = "top"]
            /\ UNCHANGED pending_frames
       ELSE /\ pending_frames' = [pending_frames EXCEPT ![d] = @ \ {x}]
            /\ worker' = [worker EXCEPT ![d] =
                  IF x \in pending_frames[d] /\ frames[d][x] = PendingCell
                  THEN [@ EXCEPT !.pc = "fb_decode", !.todo = @ \ {x},
                                 !.ref = "map", !.idx = x]
                  ELSE [@ EXCEPT !.todo = @ \ {x}]]
    /\ UNCHANGED <<map, created, frames, pinned_frame, recent_frames,
                   stream_running, closed, running_decode_tasks,
                   entire_cache_size, call, tails, gc, admin>>

\* extract_frame_hw_rgba(..).unwrap_or_else(generate_empty_frame); fetch_add;
\* future.complete
FallbackComplete(d, ok) ==
    LET w == worker[d]
        v == IF ok THEN FrameBytes(w.idx) ELSE RedFrame IN
    /\ w.pc = "fb_decode"
    /\ frames' = [frames EXCEPT ![d][w.idx] = IF w.ref = "map" THEN v ELSE @]
    /\ entire_cache_size' = FetchAdd(entire_cache_size, LenOf(d))
    /\ call' = IF w.ref = "orph" THEN WakeLive(d, v) ELSE call
    /\ worker' = [worker EXCEPT ![d] =
          [@ EXCEPT !.pc = "fb", !.ref = "none", !.idx = 0]]
    /\ UNCHANGED <<map, created, pending_frames, pinned_frame, recent_frames,
                   stream_running, closed, running_decode_tasks, tails, gc,
                   admin>>

(* ------------------- the GC task of schedule_gc ------------------------ *)

\* if ENTIRE_CACHE_SIZE >= MAX_CACHE_SIZE: the snapshots of pending_frames,
\* pinned_frame and recent_frames taken before frames.write()
GcSnapshot(d) ==
    /\ gc[d].pc = "sleep"
    /\ entire_cache_size >= max_cache_bytes
    /\ gc' = [gc EXCEPT ![d] = [pc |-> "sweep",
                                pending |-> pending_frames[d],
                                pinned |-> pinned_frame[d],
                                recent |-> Range(recent_frames[d])]]
    /\ UNCHANGED <<map, created, decoderVars, entire_cache_size, call, worker,
                   tails, admin>>

\* the entries the loop removes when it meets them
GcRemovable(d) ==
    {i \in DOMAIN frames[d] : /\ IsCompleted(frames[d][i])
                              /\ i # gc[d].pinned
                              /\ i \notin gc[d].pending
                              /\ i \notin gc[d].recent}

\* how many removals the loop makes before `break`, meeting avail removable
\* entries
RECURSIVE GcRemovals(_, _, _)
GcRemovals(size, len, avail) ==
    IF avail = 0 THEN 0
    ELSE IF FetchSub(size, len) < max_cache_bytes THEN 1
    ELSE 1 + GcRemovals(FetchSub(size, len), len, avail - 1)

RECURSIVE SubTimes(_, _, _)
SubTimes(size, len, n) ==
    IF n = 0 THEN size ELSE SubTimes(FetchSub(size, len), len, n - 1)

\* the sets of entries one pass may remove: frames.keys() of a HashMap comes in
\* an arbitrary order, so any removable entries may be met first
GcVictims(d) ==
    {E \in SUBSET GcRemovable(d) :
        Cardinality(E) = GcRemovals(entire_cache_size, LenOf(d),
                                    Cardinality(GcRemovable(d)))}

\* the pass over frames.keys() under frames.write(), then sleep(5 s)
GcSweep(d, E) ==
    /\ gc[d].pc = "sweep"
    /\ E \in GcVictims(d)
    /\ frames' = [frames EXCEPT ![d] =
                     [i \in DOMAIN @ |-> IF i \in E THEN Absent ELSE @[i]]]
    /\ entire_cache_size' = SubTimes(entire_cache_size, LenOf(d), Cardinality(E))
    /\ call' = [c \in Callers |-> DetachCall(call[c], d, E, frames[d])]
    /\ worker' = [worker EXCEPT ![d] = DetachWorker(@, E, frames[d])]
    /\ gc' = [gc EXCEPT ![d] = [IdleGc EXCEPT !.pc = "sleep"]]
    /\ UNCHANGED <<map, created, pending_frames, pinned_frame, recent_frames,
                   stream_running, closed, running_decode_tasks, tails, admin>>

(* ------------------ Decoder::clear and clear_session ------------------- *)

Registered == {map[k] : k \in Keys} \ {NoDecoder}

\* std::mem::swap(&mut temp, &mut map) under the registry lock
ClearSwap ==
    /\ admin.pc = "idle"
    /\ admin' = [pc |-> "clear_close", taken |-> Registered, session |-> 0]
    /\ map' = [k \in Keys |-> NoDecoder]
    /\ UNCHANGED <<created, decoderVars, entire_cache_size, call, worker, tails,
                   gc>>

\* CachedDecoder::close on every decoder taken out of the registry
CloseTaken ==
    /\ admin.pc \in {"clear_close", "session_close"}
    /\ closed' = [d \in Insts |-> closed[d] \/ d \in admin.taken]
    /\ admin' = [admin EXCEPT !.pc = IF @ = "clear_close" THEN "clear_poll"
                                     ELSE "session_done"]
    /\ UNCHANGED <<map, created, frames, pending_frames, pinned_frame,
                   recent_frames, stream_running, running_decode_tasks,
                   entire_cache_size, call, worker, tails, gc>>

\* the polling loop finds running_decode_tasks == 0 for every decoder taken
ClearPoll ==
    /\ admin.pc = "clear_poll"
    /\ \A d \in admin.taken : running_decode_tasks[d] = 0
    /\ admin' = [admin EXCEPT !.pc = "clear_store"]
    /\ UNCHANGED <<map, created, decoderVars, entire_cache_size, call, worker,
                   tails, gc>>

\* ENTIRE_CACHE_SIZE.store(0)
ClearStore ==
    /\ admin.pc = "clear_store"
    /\ entire_cache_size' = 0
    /\ admin' = [admin EXCEPT !.pc = "clear_done"]
    /\ UNCHANGED <<map, created, decoderVars, call, worker, tails, gc>>

\* a clear_session that takes every decoder out of the registry
SessionRetainAll(s) ==
    /\ admin.pc = "idle"
    /\ admin' = [pc |-> "session_close", taken |-> Registered, session |-> s]
    /\ map' = [k \in Keys |-> NoDecoder]
    /\ UNCHANGED <<created, decoderVars, entire_cache_size, call, worker, tails,
                   gc>>

\* map.retain(|key, _| key.session_id != session_id) under the registry lock
SessionRetain(s) ==
    /\ admin.pc = "idle"
    /\ admin' = [pc |-> "session_close",
                 taken |-> {map[k] : k \in {k2 \in Keys : session_id(k2) = s}}
                           \ {NoDecoder},
                 session |-> s]
    /\ map' = [k \in Keys |-> IF session_id(k) = s THEN NoDecoder ELSE map[k]]
    /\ UNCHANGED <<created, decoderVars, entire_cache_size, call, worker, tails,
                   gc>>

\* clear() or clear_session() returns to its caller
AdminReturn ==
    /\ admin.pc \in {"clear_done", "session_done"}
    /\ admin' = IdleAdmin
    /\ UNCHANGED <<map, created, decoderVars, entire_cache_size, call, worker,
                   tails, gc>>

(* ---------------------------- observations ----------------------------- *)

\* the observations after a step that is neither the start nor the return of
\* a get_frame call
Quiet == [hist EXCEPT !.quiet = 0, !.lastd = NoDecoder, !.last = NoFrame,
                      !.lastv = Absent]

\* a call starts: it follows a call of the same task for the same frame of the
\* same decoder immediately (no step of any task in between), with the counter
\* below the budget
ObserveEntry(c, i) ==
    [Quiet EXCEPT
       !.peers[c] = {},
       !.follow[c] = IF /\ hist.quiet = c
                        /\ hist.last = i
                        /\ hist.lastd = call[c].h
                        /\ entire_cache_size < max_cache_bytes
                     THEN hist.lastv ELSE Absent]

\* a call returns: the returned bytes, and for every overlapping call on the
\* same decoder and index, the bytes this call returned
Observe(c) ==
    [hist EXCEPT
       !.quiet = c, !.lastd = call[c].h, !.last = call[c].idx,
       !.lastv = call[c].val,
       !.follow[c] = Absent,
       !.peers = [c2 \in Callers |->
          IF c2 = c THEN {}
          ELSE IF /\ call[c2].pc \notin {"idle", "sched"}
                  /\ call[c2].h = call[c].h
                  /\ call[c2].idx = call[c].idx
               THEN hist.peers[c2] \cup {call[c].val}
               ELSE hist.peers[c2]]]

\* observations are kept in the specifications whose properties read them
Track(on, h) == hist' = IF on THEN h ELSE hist

(* ------------------------------- steps --------------------------------- *)

\* client task c: cached_decoder on keys Ks, get_frame on the frames Fs
Requests(c, Ks, Fs, on) ==
    \/ \E k \in Ks : CachedDecoder(c, k) /\ Track(on, Quiet)
    \/ ScheduleGc(c) /\ Track(on, Quiet)
    \/ \E i \in Fs : GetFrameEntry(c, i) /\ Track(on, ObserveEntry(c, i))
    \/ GetFramePeek(c) /\ Track(on, Quiet)
    \/ GetFrameMarkPending(c) /\ Track(on, Quiet)
    \/ EnsureStreamTask(c) /\ Track(on, Quiet)
    \/ AwaitReady(c) /\ Track(on, Quiet)
    \/ FinishFrame(c) /\ Track(on, Observe(c))

\* the steps of a call of c once it is started
Proceed(c) ==
    \/ ScheduleGc(c)
    \/ GetFramePeek(c)
    \/ GetFrameMarkPending(c)
    \/ EnsureStreamTask(c)
    \/ AwaitReady(c)
    \/ FinishFrame(c)

\* the drop-frame path of get_frame (no decode task is running)
Timeouts(c, on) ==
    \/ AwaitTimeout(c) /\ Track(on, Quiet)
    \/ FallbackWalk(c) /\ Track(on, Quiet)

\* the stream worker of d with a decoder collaborator whose calls succeed
Stream(d, on) ==
    \/ StreamLoopTop(d) /\ Track(on, Quiet)
    \/ SpawnHw(d, TRUE) /\ Track(on, Quiet)
    \/ StreamCheck(d) /\ Track(on, Quiet)
    \/ StreamRead(d, TRUE) /\ Track(on, Quiet)
    \/ StreamComplete(d) /\ Track(on, Quiet)

\* the decoder collaborator's calls fail
Failures(d, on) ==
    \/ SpawnHw(d, FALSE) /\ Track(on, Quiet)
    \/ \E ok \in BOOLEAN : SpawnSw(d, ok) /\ Track(on, Quiet)
    \/ StreamRead(d, FALSE) /\ Track(on, Quiet)
    \/ \E ok \in BOOLEAN : RespawnSw(d, ok) /\ Track(on, Quiet)
    \/ FallbackNext(d) /\ Track(on, Quiet)
    \/ \E ok \in BOOLEAN : FallbackComplete(d, ok) /\ Track(on, Quiet)

Gc(d, on) ==
    \/ GcSnapshot(d) /\ Track(on, Quiet)
    \/ \E E \in SUBSET DOMAIN frames[d] : GcSweep(d, E) /\ Track(on, Quiet)

\* Decoder::clear
Clear(on) ==
    \/ ClearSwap /\ Track(on, Quiet)
    \/ CloseTaken /\ Track(on, Quiet)
    \/ ClearPoll /\ Track(on, Quiet)
    \/ ClearStore /\ Track(on, Quiet)
    \/ AdminReturn /\ Track(on, Quiet)

\* Decoder::clear_session
Session(on) ==
    \/ \E s \in {session_id(k) : k \in Keys} : SessionRetain(s) /\ Track(on, Quiet)
    \/ CloseTaken /\ Track(on, Quiet)
    \/ AdminReturn /\ Track(on, Quiet)

(* --------------------------- specifications ---------------------------- *)

\* the frame task 2 and up keep requesting
ProbeFrame == 1

\* One decoder that is never closed, a decoder collaborator that never fails
\* and a budget that is never reached: task 1 scrubs over all frames, the
\* other tasks request the probe frame.
ScrubFrames(c) == IF c = 1 THEN Frames ELSE {ProbeFrame}

Next ==
    \/ \E c \in Callers : Requests(c, {1}, ScrubFrames(c), FALSE)
    \/ Stream(InstOf(1, 1), FALSE)

Spec == Init /\ [][Next]_vars

\* Fair scheduling: the runtime runs every spawned task that can take a step,
\* so the stream worker and every started call keep taking steps.  Whether a
\* task starts another call is up to the client.
Fairness ==
    /\ WF_vars(Stream(InstOf(1, 1), FALSE))
    /\ \A c \in Callers : WF_vars(Proceed(c) /\ UNCHANGED hist)

FairSpec == Spec /\ Fairness

\* One client task on the decoder of key 1, whose budget is never reached,
\* with a decoder collaborator that may fail; observations are kept.
SoloNext ==
    \/ Requests(1, {1}, Frames, TRUE)
    \/ Stream(InstOf(1, 1), TRUE)
    \/ Failures(InstOf(1, 1), TRUE)

SoloSpec == Init /\ [][SoloNext]_vars

\* The same decoder with other clients and a decoder collaborator that may
\* fail: task 1 requests the last frame, the other tasks scrub over the
\* frames before it.
TailFrames(c) == IF c = 1 THEN {MaxFrame} ELSE 0..(MaxFrame - 1)

TailNext ==
    \/ \E c \in Callers : Requests(c, {1}, TailFrames(c), FALSE)
    \/ Stream(InstOf(1, 1), FALSE)
    \/ Failures(InstOf(1, 1), FALSE)

TailSpec == Init /\ [][TailNext]_vars

\* the worker keeps taking steps whether or not the collaborator's calls fail
FairTailSpec ==
    /\ TailSpec
    /\ WF_vars(Stream(InstOf(1, 1), FALSE) \/ Failures(InstOf(1, 1), FALSE))
    /\ \A c \in Callers : WF_vars(Proceed(c) /\ UNCHANGED hist)

\* every client task works on the decoder of its own key
KeyFor(c) == ((c - 1) % 2) + 1

\* Sessions: decoders of both keys are created, used, removed by
\* clear_session and created again; calls time out on closed decoders.
SessionNext ==
    \/ \E c \in Callers : Requests(c, {KeyFor(c)}, RegFrames, FALSE)
    \/ \E c \in Callers : Timeouts(c, FALSE)
    \/ \E d \in Insts : Stream(d, FALSE)
    \/ \E d \in Insts : StreamTaskDone(d) /\ UNCHANGED hist
    \/ Session(FALSE)

SessionSpec == Init /\ [][SessionNext]_vars

\* Clear: the decoder of key 1 is created, used by all client tasks, removed
\* by clear and created again.
ClearNext ==
    \/ \E c \in Callers : Requests(c, {1}, RegFrames, FALSE)
    \/ \E c \in Callers : Timeouts(c, FALSE)
    \/ \E d \in Insts : Stream(d, FALSE)
    \/ \E d \in Insts : StreamTaskDone(d) /\ UNCHANGED hist
    \/ Clear(FALSE)

ClearSpec == Init /\ [][ClearNext]_vars

\* Budget: every client task works on the decoder of its own key; the frames
\* of key 2 fill the budget, so the GC tasks of both decoders run.
BudgetNext ==
    \/ \E c \in Callers : Requests(c, {KeyFor(c)}, RegFrames, FALSE)
    \/ \E d \in Insts : Stream(d, FALSE)
    \/ \E d \in Insts : Gc(d, FALSE)

BudgetSpec == Init /\ [][BudgetNext]_vars

\* Cache: the client tasks request the first frames of the decoder of key 2,
\* whose frames fill the budget; the GC task evicts and the collaborator may
\* fail.  Observations are kept.
CacheFrames == 0..(MaxFrameReg + 1)

\* task 1 requests all of them, the other tasks the probe frame
CacheRequests(c) == IF c = 1 THEN CacheFrames ELSE {ProbeFrame}

CacheNext ==
    \/ \E c \in Callers : Requests(c, {2}, CacheRequests(c), TRUE)
    \/ Stream(InstOf(2, 1), TRUE)
    \/ Failures(InstOf(2, 1), TRUE)
    \/ Gc(InstOf(2, 1), TRUE)

CacheSpec == Init /\ [][CacheNext]_vars

\* Fill: one client task uses the decoders of both keys in turn: it requests
\* the first frame of key 1 and scrubs over all frames of key 2.  The
\* collaborator never fails and the GC tasks of both decoders run.
FillFrames(c) ==
    IF call[c].h # NoDecoder /\ KeyOf(call[c].h) = 2 THEN Frames ELSE RegFrames

FillNext ==
    \/ Requests(1, Keys, FillFrames(1), FALSE)
    \/ \E k \in Keys : Stream(InstOf(k, 1), FALSE)
    \/ \E k \in Keys : Gc(InstOf(k, 1), FALSE)

FillSpec == Init /\ [][FillNext]_vars

\* Jump: one client task on the decoder of key 1 requests frames that lie
\* further apart than STREAM_RESTART_GAP, each of them once and in any order;
\* the collaborator never fails and the budget is never reached.  The frames
\* map ranges over the requested indices.
JumpFrames == {5, 9, 95, 100, 101}

\* the frames the client has not requested yet
JumpRequests == {i \in JumpFrames : frames[InstOf(1, 1)][i] = Absent}

JumpInit == InitOver(JumpFrames)

JumpNext ==
    \/ Requests(1, {1}, JumpRequests, FALSE)
    \/ Stream(InstOf(1, 1), FALSE)

JumpSpec == JumpInit /\ [][JumpNext]_vars

\* Forward scrub: one client task on a fresh decoder of key 1 requests the
\* frames 0, 1, .., ScrubLast one after another; the collaborator never fails
\* and the budget is never reached.
ScrubLast == 10

ScrubInit == InitOver(0..ScrubLast)

\* the frame the client requests next: the one after the highest index in the
\* frames map (its last request, which is the back of recent_frames or the pin)
ScrubRequests ==
    LET present == {i \in 0..ScrubLast : frames[InstOf(1, 1)][i] # Absent}
        last == CHOOSE j \in present : \A j2 \in present : j2 <= j IN
    IF present = {} THEN {0} ELSE {last + 1} \cap (0..ScrubLast)

ScrubNext ==
    \/ Requests(1, {1}, ScrubRequests, FALSE)
    \/ Stream(InstOf(1, 1), FALSE)

ScrubSpec == ScrubInit /\ [][ScrubNext]_vars

\* Stall: the steps of ClearSpec, where every started call keeps taking steps
\* and its 1 s timeouts elapse, while the stream worker is not required to
\* take steps: the read of a stream (read_exact on the pipe of the child
\* process) and a spawn may take arbitrarily long.
StallSpec ==
    /\ ClearSpec
    /\ \A c \in Callers : WF_vars(Proceed(c) /\ UNCHANGED hist)
    /\ \A c \in Callers : WF_vars(Timeouts(c, FALSE))

\* Evict: the client tasks request the frames 0..MaxFrame + 1 of the decoder
\* of key 1, which fill the budget: task 1 the frames up to MaxFrame, the
\* other tasks the last one, each frame when it is not in the frames map.  The
\* collaborator never fails and the GC task of the decoder runs.
EvictFrames == 0..(MaxFrame + 1)

EvictInit == InitOver(EvictFrames)

EvictRequests(c) ==
    {i \in EvictFrames : /\ frames[InstOf(1, 1)][i] = Absent
                         /\ (c = 1) = (i <= MaxFrame)}

EvictNext ==
    \/ \E c \in Callers : Requests(c, {1}, EvictRequests(c), FALSE)
    \/ Stream(InstOf(1, 1), FALSE)
    \/ Gc(InstOf(1, 1), FALSE)

EvictSpec == EvictInit /\ [][EvictNext]_vars

\* Paths: one client task on the decoder of key 2 requests its first two
\* frames; the collaborator may fail, clear closes the decoder and the client
\* keeps using its handle, so calls return on every path of get_frame.
PathFrames == 0..(MaxFrameReg + 1)

PathsNext ==
    \/ Requests(1, {2}, PathFrames, FALSE)
    \/ Timeouts(1, FALSE)
    \/ \E d \in {InstOf(2, g) : g \in 1..MaxGen} : Stream(d, FALSE)
    \/ \E d \in {InstOf(2, g) : g \in 1..MaxGen} : Failures(d, FALSE)
    \/ \E d \in Insts : StreamTaskDone(d) /\ UNCHANGED hist
    \/ Clear(FALSE)

PathsSpec == Init /\ [][PathsNext]_vars

\* Lookup: every client task calls cached_decoder with either key and
\* requests the first frame; nothing is cleared and the collaborator never
\* fails.
LookupNext ==
    \/ \E c \in Callers : Requests(c, Keys, RegFrames, FALSE)
    \/ \E d \in Insts : Stream(d, FALSE)

LookupSpec == Init /\ [][LookupNext]_vars

\* Last: one client task on the decoder of key 1 requests the last two frame
\* indices; the collaborator may fail and the budget is never reached.
LastFrames == (U32Max - 1)..U32Max

LastInit == InitOver(LastFrames)

LastNext ==
    \/ Requests(1, {1}, LastFrames, FALSE)
    \/ Stream(InstOf(1, 1), FALSE)
    \/ Failures(InstOf(1, 1), FALSE)

LastSpec == LastInit /\ [][LastNext]_vars

\* the spawns of the decoder collaborator fail, its reads succeed: every
\* fallback follows a failed hardware and a failed software spawn
SpawnFailures(d, on) ==
    \/ SpawnHw(d, FALSE) /\ Track(on, Quiet)
    \/ \E ok \in BOOLEAN : SpawnSw(d, ok) /\ Track(on, Quiet)
    \/ FallbackNext(d) /\ Track(on, Quiet)
    \/ \E ok \in BOOLEAN : FallbackComplete(d, ok) /\ Track(on, Quiet)

\* Spawn failure: the clients of TailSpec on the decoder of key 1, with a
\* collaborator whose spawns may fail.
SpawnFailNext ==
    \/ \E c \in Callers : Requests(c, {1}, TailFrames(c), FALSE)
    \/ Stream(InstOf(1, 1), FALSE)
    \/ SpawnFailures(InstOf(1, 1), FALSE)

SpawnFailSpec == Init /\ [][SpawnFailNext]_vars

\* a get_frame call of client task c on the decoder of key 1 whose
\* finish_frame takes one step per lock acquisition; a step that takes the
\* frames lock waits while another task holds it
LockRequests(c, Fs) ==
    \/ CachedDecoder(c, 1)
    \/ ScheduleGc(c)
    \/ \E i \in Fs : FramesFree(call[c].h) /\ GetFrameEntry(c, i)
    \/ GetFramePeek(c)
    \/ GetFrameMarkPending(c)
    \/ EnsureStreamTask(c)
    \/ AwaitReady(c)
    \/ FinishReadPinned(c)
    \/ FinishLockRecent(c)
    \/ FinishPop(c)
    \/ FinishRemove(c)

\* the stream worker and the fallback, whose reads of the frames map wait while
\* another task holds the frames lock
LockStream(d) ==
    \/ StreamLoopTop(d)
    \/ \E ok \in BOOLEAN : SpawnHw(d, ok)
    \/ \E ok \in BOOLEAN : SpawnSw(d, ok)
    \/ StreamCheck(d)
    \/ FramesFree(d) /\ StreamRead(d, TRUE)
    \/ StreamComplete(d)
    \/ FramesFree(d) /\ FallbackNext(d)
    \/ \E ok \in BOOLEAN : FallbackComplete(d, ok)

\* Locks: the clients of TailSpec on the decoder of key 1, with the locks each
\* get_frame call holds between its steps.
LockNext ==
    \/ \E c \in Callers : LockRequests(c, TailFrames(c)) /\ UNCHANGED hist
    \/ LockStream(InstOf(1, 1)) /\ UNCHANGED hist

LockSpec == Init /\ [][LockNext]_vars

\* Pin: one client task on the decoder of key 2, whose frames fill the
\* budget, requests its first two frames; the GC task of the first decoder
\* runs and the collaborator may fail on it, clear closes the decoder and the
\* client keeps using its handle or takes a new one: every operation that
\* runs on a decoder is taken, on a decoder in use and on a closed one.
PinNext ==
    \/ Requests(1, {2}, PathFrames, FALSE)
    \/ Timeouts(1, FALSE)
    \/ \E d \in {InstOf(2, g) : g \in 1..MaxGen} : Stream(d, FALSE)
    \/ Failures(InstOf(2, 1), FALSE)
    \/ Gc(InstOf(2, 1), FALSE)
    \/ \E d \in Insts : StreamTaskDone(d) /\ UNCHANGED hist
    \/ Clear(FALSE)

PinSpec == Init /\ [][PinNext]_vars

\* Close: the decoder of key 1 is created, used by one client task, closed by
\* clear and created again; no get_frame call is started on a closed decoder.
\* The client requests the first and the last frame, so the worker reads
\* forward over the frames between them.
CloseFrames(c) ==
    IF call[c].h = NoDecoder \/ closed[call[c].h] THEN {} ELSE {0, MaxFrame}

CloseNext ==
    \/ Requests(1, {1}, CloseFrames(1), FALSE)
    \/ Timeouts(1, FALSE)
    \/ \E d \in Insts : Stream(d, FALSE)
    \/ \E d \in Insts : StreamTaskDone(d) /\ UNCHANGED hist
    \/ Clear(FALSE)

CloseSpec == Init /\ [][CloseNext]_vars

\* the runtime keeps running every task that can take a step: the stream
\* tasks (the reads of the collaborator return), the started call and its
\* timeouts, and a started clear
FairCloseSpec ==
    /\ CloseSpec
    /\ \A d \in Insts : WF_vars(Stream(d, FALSE))
    /\ \A d \in Insts : WF_vars(StreamTaskDone(d) /\ UNCHANGED hist)
    /\ WF_vars(Proceed(1) /\ UNCHANGED hist)
    /\ WF_vars(Timeouts(1, FALSE))
    /\ WF_vars(Clear(FALSE))

\* Reset: one client task scrubs over the frames of the first decoder of key
\* 1; clear closes the decoder and resets the counter, and the client keeps
\* using its handle or takes a new one, on which it requests the first frame.
\* The collaborator never fails and the budget is never reached.
ResetFrames(c) == IF call[c].h = InstOf(1, 1) THEN Frames ELSE RegFrames

ResetNext ==
    \/ Requests(1, {1}, ResetFrames(1), FALSE)
    \/ Timeouts(1, FALSE)
    \/ \E d \in Insts : Stream(d, FALSE)
    \/ \E d \in Insts : StreamTaskDone(d) /\ UNCHANGED hist
    \/ Clear(FALSE)

ResetSpec == Init /\ [][ResetNext]_vars

\* Window: client task 1 scrubs forward over the frames 0..ScrubLast of the
\* decoder of key 1 while the other tasks keep requesting the probe frame, so
\* more distinct frames are requested than recent_frames and the pin hold.
\* The collaborator never fails and the budget is never reached.
WindowRequests(c) == IF c = 1 THEN ScrubRequests ELSE {ProbeFrame}

WindowNext ==
    \/ \E c \in Callers : Requests(c, {1}, WindowRequests(c), FALSE)
    \/ Stream(InstOf(1, 1), FALSE)

WindowSpec == ScrubInit /\ [][WindowNext]_vars

(* ----------------------------- properties ------------------------------ *)

\* C1: every get_frame call eventually returns: under fair scheduling, a task
\* that is inside a get_frame call is eventually back outside of it.
GetFrameReturns ==
    \A c \in Callers :
        (call[c].pc \notin {"idle", "sched"}) ~> (call[c].pc = "idle")

\* a call awaits a cell that is no longer in the frames map and that the worker
\* does not hold, on a decoder that is not closed and whose worker runs
OrphanedAwaiter ==
    \E c \in Callers :
        /\ call[c].pc = "await"
        /\ call[c].ref = "dead"
        /\ ~closed[call[c].h]
        /\ running_decode_tasks[call[c].h] > 0

\* C4: whenever a step removes an entry x from a frames map, the entry was
\* completed, and x is not pending, not the pinned frame and does not occur in
\* recent_frames (the queue as the removing operation leaves it).
RemovalsAreSafe ==
    [][\A d \in Insts : \A x \in Frames :
          (frames[d][x] # Absent /\ frames'[d][x] = Absent) =>
              /\ IsCompleted(frames[d][x])
              /\ x \notin pending_frames'[d]
              /\ x # pinned_frame'[d]
              /\ x \notin Range(recent_frames'[d])]_vars

\* C5: a get_frame(i) that immediately follows a returned get_frame(i) of the
\* same task on the same decoder, with the counter below the budget, is a hit
\* that returns the same bytes: it never gets past the peek into the miss path.
ReadYourWrites ==
    \A c \in Callers :
        hist.follow[c] # Absent =>
            /\ call[c].pc \in {"peek", "finish"}
            /\ call[c].pc = "finish" => call[c].val = hist.follow[c]

\* C9: every index in pending_frames is a key of the frames map and its entry
\* is not completed.
PendingEntriesOpen ==
    \A d \in Insts : \A i \in pending_frames[d] : frames[d][i] = PendingCell

\* C6: whenever an index is the minimum of the pending frames of a decoder that
\* is not closed, the index is eventually removed from pending_frames (stated
\* for the decoder the clients of the specification use).
MinPendingServed ==
    \A d \in {InstOf(1, 1)} : \A m \in Frames :
        (~closed[d] /\ pending_frames[d] # {} /\ Min(pending_frames[d]) = m)
            ~> (m \notin pending_frames[d])

\* C6 as the worker provides it: an index that is the minimum of the pending
\* frames is eventually removed from pending_frames, or a request for a lower
\* index arrives and is served first.
MinPendingServedOrPreempted ==
    \A d \in {InstOf(1, 1)} : \A m \in Frames :
        (~closed[d] /\ pending_frames[d] # {} /\ Min(pending_frames[d]) = m)
            ~> (m \notin pending_frames[d] \/ \E j \in pending_frames[d] : j < m)

\* the worker has removed an index from pending_frames while a higher index
\* stays pending
LowerServedFirst ==
    \E d \in Insts :
        /\ worker[d].pc = "complete"
        /\ \E m \in pending_frames[d] : worker[d].idx < m

\* C2: two get_frame calls for the same frame of the same decoder that overlap
\* return the same bytes: a call about to return has the bytes every
\* overlapping call for its frame returned.
OverlappingCallsAgree ==
    \A c \in Callers :
        call[c].pc = "finish" => hist.peers[c] \subseteq {call[c].val}

\* no get_frame call in progress, stream workers idle, no GC pass running, no
\* clear or clear_session in progress
Quiescent ==
    /\ \A c \in Callers : call[c].pc = "idle"
    /\ \A d \in Insts : /\ worker[d].pc \in {"none", "top"}
                        /\ worker[d].pc = "top" => ~closed[d]
                        /\ pending_frames[d] = {}
                        /\ tails[d] = 0
                        /\ gc[d].pc # "sweep"
    /\ admin.pc = "idle"

\* the bytes of the completed entries of the frames maps of the decoders D
RECURSIVE ReadyBytes(_)
ReadyBytes(D) ==
    IF D = {} THEN 0
    ELSE LET d == CHOOSE x \in D : TRUE IN
         LenOf(d) * Cardinality({i \in Frames : IsCompleted(frames[d][i])})
             + ReadyBytes(D \ {d})

\* C3: in every quiescent state the counter equals the bytes of the completed
\* entries of the registered decoders.
QuiescentAccounting ==
    Quiescent => entire_cache_size = ReadyBytes(Registered) % UsizeModulus

\* C7: when clear() returns the counter is 0 and running_decode_tasks is 0 for
\* every decoder it took out of the registry, and in quiescent states after a
\* clear the counter equals the bytes of the completed entries of the
\* registered decoders.
ClearLeavesAccountingClean ==
    /\ admin.pc = "clear_done" =>
           /\ entire_cache_size = 0
           /\ \A d \in admin.taken : running_decode_tasks[d] = 0
    /\ (Quiescent /\ \E d \in Insts : closed[d]) =>
           entire_cache_size = ReadyBytes(Registered) % UsizeModulus

\* C8: when clear_session(s) returns, no decoder of session s is registered.
SessionGoneAtReturn ==
    admin.pc = "session_done" =>
        \A k \in Keys : session_id(k) = admin.session => map[k] = NoDecoder

\* C8 as the code provides it: clear_session(s) takes out of the registry
\* exactly the decoders registered under session s when it locks the registry,
\* has closed them when it returns, and no step of it changes the
\* registration, closed flag, frames, pending_frames, pin or recent_frames of a
\* decoder of another session.  A cached_decoder call that runs before the
\* return may register a new decoder of session s.
SessionClearedExactly ==
    [][LET s == IF admin.pc = "idle" THEN admin'.session ELSE admin.session IN
       /\ (admin.pc = "idle" /\ admin'.pc = "session_close") =>
              /\ \A k \in Keys : session_id(k) = s => map'[k] = NoDecoder
              /\ admin'.taken =
                     {map[k] : k \in {k2 \in Keys : session_id(k2) = s}}
                         \ {NoDecoder}
       /\ admin'.pc = "session_done" =>
              \A d \in admin'.taken : closed'[d] /\ d \notin Registered'
       /\ (admin' # admin /\ s # 0) =>
              \A d \in Insts : session_id(KeyOf(d)) # s =>
                  /\ map'[KeyOf(d)] = map[KeyOf(d)]
                  /\ closed'[d] = closed[d]
                  /\ frames'[d] = frames[d]
                  /\ pending_frames'[d] = pending_frames[d]
                  /\ pinned_frame'[d] = pinned_frame[d]
                  /\ recent_frames'[d] = recent_frames[d]]_vars

\* clear_session(s) returns having closed a decoder while a decoder of another
\* session is registered and holds a completed frame
SessionClearedBesideOther ==
    /\ admin.pc = "session_done"
    /\ admin.taken # {}
    /\ \E d \in Registered :
          /\ session_id(KeyOf(d)) # admin.session
          /\ \E i \in Frames : IsCompleted(frames[d][i])

\* C10: the pinned frame of a decoder is a key of its frames map.
PinnedIsKey ==
    \A d \in Insts :
        pinned_frame[d] # NoFrame => frames[d][pinned_frame[d]] # Absent

\* C11: at most one task of a decoder executes run_stream_loop: a task is in
\* the loop only while stream_running is set, and every step that spawns a
\* stream task (the increment of running_decode_tasks) is taken when no task
\* of the decoder is in the loop.
SingleStreamWorker ==
    [][\A d \in Insts :
          /\ worker[d].pc # "none" => stream_running[d]
          /\ running_decode_tasks'[d] > running_decode_tasks[d] =>
                 worker[d].pc = "none"]_vars

\* a second stream task of a closed decoder is in the loop while the first,
\* which left the loop, has not yet decremented running_decode_tasks
WorkerBesideExitedTask ==
    \E d \in Insts :
        /\ closed[d]
        /\ tails[d] = 1
        /\ worker[d].pc = "top"
        /\ running_decode_tasks[d] = 2

\* the largest width * height * 4 of the decoders
LargestFrame == CHOOSE n \in {FrameLen(k) : k \in Keys} :
                    \A k \in Keys : FrameLen(k) <= n

\* C12: the counter exceeds the budget by at most the largest single-frame
\* size plus the size of one in-flight completion.
OvershootBounded ==
    entire_cache_size <= max_cache_bytes + LargestFrame + LargestFrame

\* C13 (restart decision): whenever the worker of a decoder that is not closed
\* picks its target, the minimum of pending_frames, it goes on to respawn the
\* stream exactly when it has no stream, or the target is below current, or
\* the target is more than STREAM_RESTART_GAP above current; otherwise it keeps
\* its stream and current and reads forward; and a spawn that succeeds leaves
\* a stream whose next frame is the target.
RestartDecision ==
    [][\A d \in Insts :
          LET w == worker[d]
              t == Min(pending_frames[d]) IN
          /\ (w.pc = "top" /\ worker'[d] # w /\ worker'[d].pc # "none") =>
                 IF \/ w.stream = "none"
                    \/ t < w.current
                    \/ t - w.current > STREAM_RESTART_GAP
                 THEN /\ worker'[d].pc = "spawn_hw"
                      /\ worker'[d].stream = "none"
                      /\ worker'[d].target = t
                 ELSE /\ worker'[d].pc = "check"
                      /\ worker'[d].stream = w.stream
                      /\ worker'[d].current = w.current
                      /\ worker'[d].target = t
          /\ (w.pc \in {"spawn_hw", "spawn_sw"} /\ worker'[d].pc = "check") =>
                 /\ worker'[d].stream # "none"
                 /\ worker'[d].current = w.target]_vars

\* the stream has yielded frame 9 and nothing else (current is 10), frame 101
\* is requested and the worker has decided to respawn at 101
JumpRestartsAt101 ==
    LET d == InstOf(1, 1) IN
    /\ worker[d].pc = "spawn_hw"
    /\ worker[d].target = 101
    /\ IsCompleted(frames[d][9])
    /\ \A i \in JumpFrames \ {9, 101} : frames[d][i] = Absent

\* C13 with its example read as a sequence: the restart decision as above,
\* and a request for 101 that follows the served request for 95 (the stream
\* has yielded frame 95, current is 96) makes the worker respawn.
RestartDecisionInSequence ==
    [][\A d \in Insts :
          LET w == worker[d]
              t == Min(pending_frames[d]) IN
          /\ (w.pc = "top" /\ worker'[d] # w /\ worker'[d].pc # "none") =>
                 /\ worker'[d].pc = "spawn_hw" <=>
                        \/ w.stream = "none"
                        \/ t < w.current
                        \/ t - w.current > STREAM_RESTART_GAP
                 /\ (w.stream # "none" /\ w.current = 96 /\ t = 101) =>
                        worker'[d].pc = "spawn_hw"]_vars

\* C14 (forward scrub): while one client requests the frames 0..ScrubLast of a
\* fresh decoder one after another and the collaborator's calls succeed, the
\* worker spawns a stream only while it serves the first request, exactly one
\* stream task exists from the first miss on (so the drop-frame timeout never
\* applies to an awaiting call), every call returns the bytes the stream
\* yielded for its index, and the counter never exceeds ScrubLast + 1 frame
\* sizes.
ForwardScrub ==
    [][LET d == InstOf(1, 1) IN
       /\ (worker'[d].pc = "spawn_hw" /\ worker[d].pc # "spawn_hw") =>
              /\ frames[d][0] = PendingCell
              /\ \A i \in 1..ScrubLast : frames[d][i] = Absent
       /\ running_decode_tasks'[d] = IF worker'[d].pc = "none" THEN 0 ELSE 1
       /\ call'[1].pc \in {"await", "finish"} => running_decode_tasks'[d] = 1
       /\ call'[1].pc = "finish" => call'[1].val = FrameBytes(call'[1].idx)
       /\ worker'[d].pc \notin {"spawn_sw", "respawn_sw", "fb", "fb_decode"}
       /\ entire_cache_size' <= (ScrubLast + 1) * LenOf(d)]_vars

\* the last call of the scrub returns the frame read from the stream, after
\* finish_frame has evicted the first frame that left recent_frames
ScrubCompleted ==
    LET d == InstOf(1, 1) IN
    /\ call[1].pc = "finish"
    /\ call[1].idx = ScrubLast
    /\ call[1].val = FrameBytes(ScrubLast)
    /\ worker[d].stream = "hw"
    /\ frames[d][1] = Absent
    /\ IsCompleted(frames[d][0])

\* C15 (drop-frame fallback): a get_frame call that awaits its frame on a
\* decoder that is not closed eventually stops waiting, by a completion of its
\* cell or by the drop-frame fallback after a timeout, also when the stream
\* makes no further progress (or the decoder gets closed).
DropFrameFallback ==
    \A c \in Callers :
        (call[c].pc = "await" /\ ~closed[call[c].h])
            ~> (call[c].pc # "await" \/ closed[call[c].h])

\* a call awaits a frame of a decoder that is not closed whose worker is about
\* to read that frame from the stream
AwaitsStalledRead ==
    \E c \in Callers :
        /\ call[c].pc = "await"
        /\ ~closed[call[c].h]
        /\ worker[call[c].h].pc = "read"
        /\ worker[call[c].h].current = call[c].idx
        /\ running_decode_tasks[call[c].h] = 1

\* C16 (GC order): a GC pass starts only with the counter at or above the
\* budget; a pass removes entries in descending index order, so every
\* completed entry it leaves that its snapshots show as not pinned, not
\* pending and not recent lies below every entry it removed; and it stops as
\* soon as the counter is below the budget, so before its last removal the
\* counter was still at or above the budget.
GcDescendingOrder ==
    [][\A d \in Insts :
          LET removed == {a \in DOMAIN frames[d] :
                             frames[d][a] # Absent /\ frames'[d][a] = Absent}
              left == {b \in DOMAIN frames[d] :
                          /\ IsCompleted(frames'[d][b])
                          /\ b # gc[d].pinned
                          /\ b \notin gc[d].pending
                          /\ b \notin gc[d].recent} IN
          /\ (gc[d].pc = "sleep" /\ gc'[d].pc = "sweep") =>
                 entire_cache_size >= max_cache_bytes
          /\ (gc[d].pc = "sweep" /\ gc'[d].pc = "sleep") =>
                 /\ \A a \in removed : \A b \in left : b < a
                 /\ removed # {} =>
                        entire_cache_size' + LenOf(d) >= max_cache_bytes]_vars

\* a GC pass is about to run with two removable entries and a counter that
\* one removal brings below the budget
GcPassWithChoice ==
    \E d \in Insts :
        /\ gc[d].pc = "sweep"
        /\ Cardinality(GcRemovable(d)) >= 2
        /\ entire_cache_size >= max_cache_bytes
        /\ entire_cache_size - LenOf(d) < max_cache_bytes

LookupSharesDecoder ==
    [][/\ \A c \in Callers :
              call'[c].h # NoDecoder =>
                  /\ call'[c].h = map'[KeyOf(call'[c].h)]
                  /\ created'[KeyOf(call'[c].h)] = 1
       /\ \A k1 \in Keys : \A k2 \in Keys :
              (k1 # k2 /\ map'[k1] # NoDecoder) => map'[k1] # map'[k2]
       /\ \A d \in Insts :
              /\ (gc'[d].pc # "off" /\ gc[d].pc = "off") =>
                     \E c \in Callers : /\ call[c].pc = "sched"
                                         /\ call[c].h = d
                                         /\ created[KeyOf(d)] = 1
              /\ Cardinality({c \in Callers : call'[c].pc = "sched"
                                                /\ call'[c].h = d})
                     <= IF gc'[d].pc = "off" THEN 1 ELSE 0
              /\ frames'[d] # frames[d] =>
                     \/ \E c \in Callers : call[c].h = d /\ call'[c] # call[c]
                     \/ worker'[d] # worker[d]]_vars

\* both client tasks hold a handle to the decoder of key 1 whose GC task
\* runs, one of them awaits a frame of it, and the decoder of key 2 is
\* registered beside it
SharedHandleBesideOtherKey ==
    /\ \A c \in Callers : call[c].h = InstOf(1, 1)
    /\ \E c \in Callers : call[c].pc = "await"
    /\ gc[InstOf(1, 1)].pc = "sleep"
    /\ map[2] = InstOf(2, 1)
    /\ frames[InstOf(2, 1)][0] # Absent

\* the steps of the worker of d that read from its stream: a frame read is
\* attributed to the index current, only the cell of that index is completed
\* with it, and while the worker keeps its stream current never decreases;
\* inc(x) is what current becomes after the frame read for index x
StreamAttribution(d, inc(_)) ==
    LET w == worker[d]
        w2 == worker'[d] IN
    /\ (w.pc = "read" /\ w2.pc = "complete") =>
           w2.idx = w.current /\ w2.current = w.current
    /\ (w.pc = "read" /\ w2.pc = "check") => w2.current = inc(w.current)
    /\ (w.pc = "complete" /\ w2.pc = "check") =>
           /\ w.idx = w.current
           /\ w2.current = inc(w.current)
           /\ \A i \in DOMAIN frames[d] :
                  frames'[d][i] # frames[d][i] =>
                      i = w.current /\ frames'[d][i] = FrameBytes(i)
    /\ (w.stream # "none" /\ w2.stream = w.stream) => w2.current >= w.current

\* C19 (completion order) as stated: the worker attributes every frame it reads
\* to current, completes only the cell of that index and then increments
\* current by exactly one, so the completions of one stream ascend.
StreamOrderExact ==
    [][\A d \in Insts : StreamAttribution(d, LAMBDA x : x + 1)]_vars

\* C19 as the code provides it: as above, where current is incremented with
\* saturating_add, by one below the largest frame index and not at all at
\* the largest frame index.
StreamOrderSaturating ==
    [][\A d \in Insts : StreamAttribution(d, SaturatingInc)]_vars

\* the worker completes the cell of the frame after the one it completed
\* before on the same stream
NextFrameOnSameStream ==
    \E d \in Insts :
        /\ worker[d].pc = "complete"
        /\ worker[d].stream # "none"
        /\ worker[d].idx = U32Max
        /\ IsCompleted(frames[d][U32Max - 1])
        /\ frames[d][U32Max - 1] # RedFrame
        /\ pinned_frame[d] = U32Max - 1

SpawnFailureFallback ==
    [][\A d \in Insts :
          LET w == worker[d]
              w2 == worker'[d] IN
          /\ (w2.pc = "spawn_hw" /\ w.pc # "spawn_hw") => w.pc = "top"
          /\ (w2.pc = "spawn_sw" /\ w.pc # "spawn_sw") => w.pc = "spawn_hw"
          /\ (w.pc = "spawn_hw" /\ w2.pc # "spawn_hw") =>
                 \/ w2.pc = "check" /\ w2.stream = "hw" /\ w2.current = w.target
                 \/ w2.pc = "spawn_sw" /\ w2.stream = "none"
          /\ (w.pc = "spawn_sw" /\ w2.pc # "spawn_sw") =>
                 \/ w2.pc = "check" /\ w2.stream = "sw" /\ w2.current = w.target
                 \/ /\ w2.pc = "fb"
                    /\ w2.stream = "none"
                    /\ w2.todo = pending_frames[d]
          /\ (w.pc = "fb" /\ w2 # w) =>
                 IF w.todo = {}
                 THEN w2.pc = "top" /\ pending_frames'[d] = pending_frames[d]
                 ELSE \E x \in w.todo :
                        /\ w2.todo = w.todo \ {x}
                        /\ pending_frames'[d] = pending_frames[d] \ {x}
                        /\ IF frames[d][x] = PendingCell
                           THEN w2.pc = "fb_decode" /\ w2.idx = x
                           ELSE w2.pc = "fb"
          /\ (w.pc = "fb_decode" /\ w2.pc # "fb_decode") =>
                 /\ w2.pc = "fb"
                 /\ w2.todo = w.todo
                 /\ entire_cache_size' = FetchAdd(entire_cache_size, LenOf(d))
                 /\ w.ref = "map" =>
                        /\ frames[d][w.idx] = PendingCell
                        /\ frames'[d][w.idx] \in {FrameBytes(w.idx), RedFrame}
          /\ \A i \in DOMAIN frames[d] :
                 frames'[d][i] = RedFrame => \/ frames[d][i] = RedFrame
                                             \/ w.pc = "fb_decode"]_vars

\* after both spawns failed the fallback has completed the cell of one pending
\* frame with the red frame and is about to complete the cell of another
FallbackOverTwoPending ==
    \E d \in Insts :
        /\ worker[d].pc = "fb_decode"
        /\ \E i \in DOMAIN frames[d] : i # worker[d].idx /\ frames[d][i] = RedFrame
        /\ frames[d][worker[d].idx] = PendingCell
        /\ entire_cache_size = LenOf(d)

\* C22 (no duplicate completions): a cell is completed at most once and the
\* counter is incremented once per completion: a completed entry of a frames
\* map keeps its bytes until it is removed; an entry becomes completed only in
\* the completing step of the worker that holds its cell, which adds the
\* length of the frame to the counter; a worker that holds a cell that is
\* already completed neither completes it nor adds to the counter; and the
\* counter grows in no other step.
NoDuplicateCompletion ==
    [][\A d \in Insts :
          LET w == worker[d]
              w2 == worker'[d]
              completes == w.pc \in {"complete", "fb_decode"} /\ w2.pc # w.pc
              fresh == \/ w.ref = "orph"
                       \/ w.ref = "map" /\ frames[d][w.idx] = PendingCell IN
          /\ \A i \in DOMAIN frames[d] :
                 /\ IsCompleted(frames[d][i]) =>
                        frames'[d][i] \in {frames[d][i], Absent}
                 /\ (frames[d][i] = PendingCell /\ IsCompleted(frames'[d][i])) =>
                        /\ completes
                        /\ w.ref = "map"
                        /\ w.idx = i
                        /\ entire_cache_size' =
                               FetchAdd(entire_cache_size, LenOf(d))
          /\ completes =>
                 /\ entire_cache_size' =
                        IF fresh THEN FetchAdd(entire_cache_size, LenOf(d))
                        ELSE entire_cache_size
                 /\ (w.ref = "map" /\ fresh) => IsCompleted(frames'[d][w.idx])
                 /\ w2.ref = "none"
          /\ w.pc = "fb_decode" => fresh
          /\ entire_cache_size' > entire_cache_size =>
                 \E d2 \in Insts :
                     /\ worker[d2].pc \in {"complete", "fb_decode"}
                     /\ worker'[d2].pc # worker[d2].pc]_vars

\* the worker has read, from a software stream, the frame of a pending index
\* whose cell is already completed, and holds that cell
HoldsCompletedCell ==
    \E d \in Insts :
        /\ worker[d].pc = "complete"
        /\ worker[d].stream = "sw"
        /\ worker[d].ref = "map"
        /\ IsCompleted(frames[d][worker[d].idx])

\* the suspension points of a get_frame call: schedule_gc().await and the
\* timeout(.., future.get()).await
AtSuspensionPoint(c) == call[c].pc \in {"sched", "await"}

\* C23 (lock discipline): whenever a task holds the frames lock together with
\* the pending_frames, pinned_frame or recent_frames mutex, the frames lock
\* was acquired first, and no task holds the frames lock at a suspension
\* point.
LockDiscipline ==
    \A c \in Callers :
        LET held == call[c].locks IN
        /\ \A n \in 1..Len(held) : held[n] = "frames" => n = 1
        /\ AtSuspensionPoint(c) => "frames" \notin Range(held)

\* a get_frame call holds the recent_frames mutex and, acquired after it, the
\* frames lock
FramesLockedInsideRecent ==
    \E c \in Callers : call[c].locks = <<"recent_frames", "frames">>

\* C24 (pin): pinned_frame changes only in a get_frame call that misses while
\* it is None, which sets it to the index of the call; once it is Some(p) no
\* step changes it.
PinSetOnce ==
    [][\A d \in Insts :
          pinned_frame'[d] # pinned_frame[d] =>
              /\ pinned_frame[d] = NoFrame
              /\ \E c \in Callers :
                     /\ call[c].h = d
                     /\ call[c].pc = "peek"
                     /\ ~IsCompleted(CellValue(c))
                     /\ call'[c].pc = "mark"
                     /\ pinned_frame'[d] = call[c].idx]_vars

\* a call for another index has missed on a closed decoder whose pin, the index
\* of the first miss, has a completed entry
MissBesidePin ==
    \E c \in Callers :
        LET d == call[c].h IN
        /\ call[c].pc = "mark"
        /\ closed[d]
        /\ pinned_frame[d] # NoFrame
        /\ pinned_frame[d] # call[c].idx
        /\ IsCompleted(frames[d][pinned_frame[d]])

\* C25 (cooperative close): on a decoder that is closed and on which no new
\* get_frame call is started, the stream task eventually has left its loop and
\* running_decode_tasks is 0 from then on, and a clear that has closed its
\* decoders eventually returns (stated for the first decoder of key 1).
CooperativeClose ==
    /\ \A d \in {InstOf(1, 1)} :
           [](closed[d] =>
                  <>[](worker[d].pc = "none" /\ running_decode_tasks[d] = 0))
    /\ (admin.pc = "clear_poll") ~> (admin.pc = "clear_done")

\* the decoder is closed and clear polls while the worker, in the middle of
\* advancing its stream, is about to read a frame below its target
ClosedWhileAdvancing ==
    \E d \in Insts :
        /\ closed[d]
        /\ admin.pc = "clear_poll"
        /\ worker[d].pc = "read"
        /\ worker[d].current < worker[d].target
        /\ running_decode_tasks[d] = 1

\* C26 (no underflow): every step that removes completed entries from a frames
\* map, and so subtracts their bytes from the counter, finds the counter at
\* least as large as the bytes it subtracts.
CounterNeverUnderflows ==
    [][\A d \in Insts :
          LET removed == {i \in DOMAIN frames[d] :
                             IsCompleted(frames[d][i]) /\ frames'[d][i] = Absent}
          IN entire_cache_size >= LenOf(d) * Cardinality(removed)]_vars

\* after clear has reset the counter, a call on a handle obtained before the
\* clear is about to return a frame whose finish_frame evicts a completed
\* entry
EvictsAfterReset ==
    \E c \in Callers :
        LET d == call[c].h IN
        /\ call[c].pc = "finish"
        /\ closed[d]
        /\ admin.pc = "clear_done"
        /\ entire_cache_size = 0
        /\ \E i \in DOMAIN frames[d] : /\ i \in FinishState(d, call[c].idx).gone
                                       /\ IsCompleted(frames[d][i])

\* C27 (no orphaned awaiter): while a get_frame call waits on the cell it
\* cloned, the frames map holds that cell under the index of the call.
AwaitedCellInMap ==
    \A c \in Callers : call[c].pc = "await" => call[c].ref = "map"

\* a call waits on a cell that is not completed, that finish_frame removed
\* from the frames map and that no task will complete, while its index is no
\* longer pending
AwaitedEntryEvicted ==
    \E c \in Callers :
        /\ call[c].pc = "await"
        /\ call[c].ref = "dead"
        /\ frames[call[c].h][call[c].idx] = Absent
        /\ call[c].idx \notin pending_frames[call[c].h]
        /\ worker[call[c].h].pc = "top"

\* no get_frame call on decoder d is in progress
DecoderQuiet(d) ==
    \A c \in Callers : call[c].h = d => call[c].pc \in {"idle", "sched"}

\* C28 (bounded residency): whenever no get_frame call on a decoder is in
\* progress, every completed entry of its frames map is the pinned frame or
\* occurs in recent_frames, and the map holds at most RECENT_FRAME_CACHE + 1
\* completed entries.
ResidentsAreRecent ==
    \A d \in Insts :
        DecoderQuiet(d) =>
            LET ready == {i \in DOMAIN frames[d] : IsCompleted(frames[d][i])} IN
            /\ \A i \in ready :
                   i = pinned_frame[d] \/ i \in Range(recent_frames[d])
            /\ Cardinality(ready) <= RECENT_FRAME_CACHE + 1

\* no call is in progress on a decoder that holds RECENT_FRAME_CACHE + 1
\* completed entries after frames that left recent_frames were evicted
FullWindowAtRest ==
    \E d \in Insts :
        /\ DecoderQuiet(d)
        /\ \E c \in Callers : call[c].h = d
        /\ Cardinality({i \in DOMAIN frames[d] : IsCompleted(frames[d][i])})
               = RECENT_FRAME_CACHE + 1
        /\ \E i \in DOMAIN frames[d] :
               /\ frames[d][i] = Absent
               /\ \E j \in DOMAIN frames[d] : j > i /\ IsCompleted(frames[d][j])

====
